---------------------------- MODULE Spec2Model ----------------------------
(***************************************************************************)
(* LLM-Secrets prototype: ThoughtProcessor (segmenter + classifier),       *)
(* EncryptionManager (key load-or-create, encrypt), StorageManager (save,  *)
(* list) and SecretAgent.process_message.                                  *)
(*                                                                         *)
(* A text is a sequence of atoms.  An atom is one whitespace character     *)
(* (" " or "\n"), the sentence punctuation ".", or a run of letters (a     *)
(* word); adjacent word atoms with nothing between them form one longer    *)
(* word, as they do in a string.                                           *)
(***************************************************************************)
EXTENDS Integers, Sequences, FiniteSets, TLC

VARIABLES
    text,        \* SpecText: the input of process_output
    out,         \* SpecText: what process_output returned, or NoValue
    cls,         \* SpecScore: the regex counts of one segment
    verdict,     \* SpecScore: what _is_likely_private returned, or NoValue
    keyFile,     \* content of key.txt (Absent when there is no file)
    kpc,         \* per process: position in EncryptionManager.__init__
    kkey,        \* per process: key, and self.key once __init__ is done
    generated,   \* history: the processes that took the "generate" branch
    keyDeleted,  \* history: key.txt was removed after the agent loaded its key
    firstKey,    \* history: the key the agent held when construction ended
    lastEnc,     \* history: the latest encrypt call: its key, and key.txt then
    dirExists,   \* the private/ directory exists
    writable,    \* files in private/ can be opened for writing
    files,       \* private/: file name (its timestamp) -> bytes written
    now,         \* wall clock, in whole seconds
    apc,         \* SecretAgent: "new", "idle", "loop", "returned", "raised"
    count,       \* SecretAgent.private_thought_count
    pub,         \* process_message: public_output
    todo,        \* process_message: private thoughts not yet iterated over
    stored,      \* process_message: stored_thoughts
    failed,      \* history: a step of this call raised
    found,       \* history: number of private thoughts found by this call
    count0,      \* history: private_thought_count when this call began
    result,      \* what the latest process_message call returned, or NoValue
    emitted,     \* history: every metadata record created, in creation order
    prevCall,    \* history: the call before the latest finished call
    lastCall,    \* history: the latest finished call
    lastSave,    \* history: the latest save: its path, and the listing then
    ncalls       \* history: number of process_message calls begun

vars == <<text, out, cls, verdict, keyFile, kpc, kkey, generated, keyDeleted,
          firstKey, lastEnc, dirExists, writable, files, now, apc, count,
          pub, todo, stored, failed, found, count0, result, emitted, prevCall,
          lastCall, lastSave, ncalls>>

textVars == <<text, out>>
scoreVars == <<cls, verdict>>
keyVars == <<keyFile, kpc, kkey, generated>>
agentVars == <<keyDeleted, firstKey, lastEnc, dirExists, writable, files,
               now, apc, count, pub, todo, stored, failed, found, count0, result,
               emitted, prevCall, lastCall, lastSave, ncalls>>

\* no value yet; a record, like every value it stands in for
NoValue == [kind |-> "none"]
\* what a call that raised an exception yields
Raises == [kind |-> "raises"]

-----------------------------------------------------------------------------
(* Bounds *)

MaxTextLen == 4      \* atoms in an input text of SpecText
MaxWords == 100      \* words in a segment of SpecScore
MaxClock == 1        \* seconds the wall clock can advance
MaxCalls == 2        \* process_message calls on the agent
NumIVs == 1          \* distinct values os.urandom(16) can return
NumKeys == 3         \* distinct values os.urandom(KEY_SIZE) can return

-----------------------------------------------------------------------------
(* Atoms and strings *)

WS == {" ", "\n"}
SentenceEnd == {".", "!", "?"}
\* the letter runs of the input alphabet; "X" is a long run of letters that
\* matches none of the program's patterns
WordAtoms == {"I", "think", "worry", "careful", "secret", "X"}
Atoms == WS \cup {"."} \cup WordAtoms

XLen == 251
\* len() of the one-atom string
AtomLen(a) ==
    CASE a = "I" -> 1
      [] a = "think" -> 5
      [] a = "worry" -> 5
      [] a = "careful" -> 7
      [] a = "secret" -> 6
      [] a = "X" -> XLen
      [] OTHER -> 1

RECURSIVE StrLen(_)
StrLen(s) == IF s = <<>> THEN 0 ELSE AtomLen(Head(s)) + StrLen(Tail(s))

RECURSIVE Concat(_)
\* "".join(list)
Concat(ss) == IF ss = <<>> THEN <<>> ELSE Head(ss) \o Concat(Tail(ss))

RECURSIVE JoinSpace(_)
\* " ".join(list)
JoinSpace(ss) ==
    IF ss = <<>> THEN <<>>
    ELSE IF Len(ss) = 1 THEN ss[1]
    ELSE ss[1] \o <<" ">> \o JoinSpace(Tail(ss))

RECURSIVE LStrip(_)
LStrip(s) == IF s # <<>> /\ Head(s) \in WS THEN LStrip(Tail(s)) ELSE s

RECURSIVE RStrip(_)
RStrip(s) ==
    IF s # <<>> /\ s[Len(s)] \in WS THEN RStrip(SubSeq(s, 1, Len(s) - 1)) ELSE s

\* str.strip()
Strip(s) == RStrip(LStrip(s))

\* the last index of the whitespace run that starts at index i (t[i] \in WS)
WsRunEnd(t, i) ==
    CHOOSE k \in i..Len(t) :
        /\ \A j \in i..k : t[j] \in WS
        /\ (k = Len(t) \/ t[k + 1] \notin WS)

-----------------------------------------------------------------------------
(* ThoughtProcessor._split_into_segments *)

\* where the match of \n\s*\n that starts at index i ends, or 0 if there is
\* none: \s* is greedy, so the match runs to the last newline of the run
ParaMatchEnd(t, i) ==
    IF t[i] # "\n" THEN 0
    ELSE LET js == {j \in (i + 1)..WsRunEnd(t, i) : t[j] = "\n"}
         IN IF js = {} THEN 0 ELSE CHOOSE j \in js : \A k \in js : k <= j

RECURSIVE ParaSplit(_, _, _)
\* re.split(r'\n\s*\n', t), scanning from index i with piece cur open
ParaSplit(t, i, cur) ==
    IF i > Len(t) THEN <<cur>>
    ELSE IF ParaMatchEnd(t, i) # 0
         THEN <<cur>> \o ParaSplit(t, ParaMatchEnd(t, i) + 1, <<>>)
         ELSE ParaSplit(t, i + 1, Append(cur, t[i]))

RECURSIVE SentenceSplit_Consuming(_, _, _)
\* the faulty split on [.!?]\s+ (no lookbehind): the punctuation is consumed
SentenceSplit_Consuming(t, i, cur) ==
    IF i > Len(t) THEN <<cur>>
    ELSE IF i > 1 /\ t[i - 1] \in SentenceEnd /\ t[i] \in WS
         THEN <<SubSeq(cur, 1, Len(cur) - 1)>>
              \o SentenceSplit_Consuming(t, WsRunEnd(t, i) + 1, <<>>)
         ELSE SentenceSplit_Consuming(t, i + 1, Append(cur, t[i]))

RECURSIVE SentenceSplit(_, _, _)
\* re.split(r'(?<=[.!?])\s+', t), scanning from index i with piece cur open
SentenceSplit(t, i, cur) ==
    IF i > Len(t) THEN <<cur>>
    ELSE IF i > 1 /\ t[i - 1] \in SentenceEnd /\ t[i] \in WS
         THEN <<cur>> \o SentenceSplit(t, WsRunEnd(t, i) + 1, <<>>)
         ELSE SentenceSplit(t, i + 1, Append(cur, t[i]))

LongParagraph == 500

\* the pieces one paragraph contributes to result
Resplit(segment) ==
    IF StrLen(Strip(segment)) > LongParagraph
    THEN SentenceSplit(segment, 1, <<>>)
    ELSE <<segment>>

RECURSIVE ExtendAll(_)
ExtendAll(segments) ==
    IF segments = <<>> THEN <<>>
    ELSE Resplit(Head(segments)) \o ExtendAll(Tail(segments))

RECURSIVE StripNonEmpty(_)
\* [s.strip() for s in result if s.strip()]
StripNonEmpty(ss) ==
    IF ss = <<>> THEN <<>>
    ELSE IF Strip(Head(ss)) # <<>>
         THEN <<Strip(Head(ss))>> \o StripNonEmpty(Tail(ss))
         ELSE StripNonEmpty(Tail(ss))

split_into_segments(t) == StripNonEmpty(ExtendAll(ParaSplit(t, 1, <<>>)))

-----------------------------------------------------------------------------
(* ThoughtProcessor: the classifier *)

\* the alternatives of PRIVACY_INDICATORS[0]; it has no \b, so it matches
\* anywhere in the segment.  Every other indicator needs words that are not
\* in WordAtoms.
ExplicitWords == {"private", "secret", "confidential", "personal", "sensitive"}
FirstPersonWords == {"I", "me", "my", "mine", "myself"}
ThinkingVerbs ==
    {"think", "feel", "believe", "wonder", "question", "doubt", "reflect"}
\* the one-word alternatives ("could be" needs words outside WordAtoms)
UncertaintyWords ==
    {"maybe", "perhaps", "possibly", "might", "uncertain", "unsure"}
SensitiveTopics ==
    {"controversial", "controversy", "contentious", "dispute", "disagreement",
     "personal", "private", "intimate", "secret",
     "worry", "concern", "afraid", "fear", "anxious", "anxiety",
     "critique", "criticism", "critical", "flaw", "weakness", "shortcoming"}
\* the one-word alternatives ("between us", "not for" need other words)
CautionWords == {"careful", "cautious", "warning", "hesitant"}

\* pattern.search(seg) for some pattern of privacy_patterns
MatchesIndicator(seg) == \E i \in 1..Len(seg) : seg[i] \in ExplicitWords

\* len(re.findall(r'\b(w1|w2|...)\b', seg)): the atoms of the set that stand
\* as whole words, with no letter next to them
CountWholeWords(seg, words) ==
    Cardinality({i \in 1..Len(seg) :
        /\ seg[i] \in words
        /\ (i = 1 \/ seg[i - 1] \notin WordAtoms)
        /\ (i = Len(seg) \/ seg[i + 1] \notin WordAtoms)})

\* len(seg.split()): the maximal runs of non-whitespace
WordCount(seg) ==
    Cardinality({i \in 1..Len(seg) :
        seg[i] \notin WS /\ (i = 1 \/ seg[i - 1] \in WS)})

\* what the regular expressions and split() find in a segment
Counts(seg) ==
    [match |-> MatchesIndicator(seg),
     first_person |-> CountWholeWords(seg, FirstPersonWords),
     thinking_verbs |-> CountWholeWords(seg, ThinkingVerbs),
     uncertainty |-> CountWholeWords(seg, UncertaintyWords),
     topic_mentions |-> CountWholeWords(seg, SensitiveTopics),
     caution_phrases |-> CountWholeWords(seg, CautionWords),
     word_count |-> WordCount(seg)]

\* A score is a rational <<numerator, denominator>>, denominator > 0.  The
\* program computes in binary floating point; its comparisons with 0.7 and
\* 0.8 agree with the exact ones for every word count below 400.
Zero == <<0, 1>>
One == <<1, 1>>
Gt(a, b) == a[1] * b[2] > b[1] * a[2]
Ge(a, b) == a[1] * b[2] >= b[1] * a[2]
MinScore(a, b) == IF Gt(a, b) THEN b ELSE a

\* indicators / (word_count * 0.3)
IntroRatio(indicators, word_count) == <<10 * indicators, 3 * word_count>>
\* indicators / (word_count * 0.25)
SensRatio(indicators, word_count) == <<4 * indicators, word_count>>

calculate_introspection_score(c) ==
    IF c.word_count = 0 THEN Zero
    ELSE MinScore(One,
                  IntroRatio(c.first_person + c.thinking_verbs + c.uncertainty,
                             c.word_count))

calculate_sensitivity_score(c) ==
    IF c.word_count = 0 THEN Zero
    ELSE MinScore(One,
                  SensRatio(c.topic_mentions + c.caution_phrases * 2,
                            c.word_count))

IntroThreshold == <<7, 10>>
SensThreshold == <<8, 10>>

\* the faulty comparison: >= where the program has >
Exceeds_Inclusive(score, threshold) == Ge(score, threshold)
\* score > threshold
Exceeds(score, threshold) == Gt(score, threshold)

\* _is_likely_private, from what the patterns found in the segment
is_private_counts(c) ==
    IF c.match THEN TRUE
    ELSE IF Exceeds(calculate_introspection_score(c), IntroThreshold) THEN TRUE
    ELSE IF Exceeds(calculate_sensitivity_score(c), SensThreshold) THEN TRUE
    ELSE FALSE

is_likely_private(seg) == is_private_counts(Counts(seg))

-----------------------------------------------------------------------------
(* ThoughtProcessor.process_output *)

RECURSIVE Route_Leaky(_, _, _)
\* the faulty loop: a private segment is appended to both lists
Route_Leaky(segments, public_segments, private_thoughts) ==
    IF segments = <<>>
    THEN [public_segments |-> public_segments,
          private_thoughts |-> private_thoughts]
    ELSE IF is_likely_private(Head(segments))
         THEN Route_Leaky(Tail(segments),
                          Append(public_segments, Head(segments)),
                          Append(private_thoughts, Head(segments)))
         ELSE Route_Leaky(Tail(segments),
                          Append(public_segments, Head(segments)),
                          private_thoughts)

RECURSIVE Route(_, _, _)
\* the for loop: public_segments and private_thoughts after the segments
Route(segments, public_segments, private_thoughts) ==
    IF segments = <<>>
    THEN [public_segments |-> public_segments,
          private_thoughts |-> private_thoughts]
    ELSE IF is_likely_private(Head(segments))
         THEN Route(Tail(segments), public_segments,
                    Append(private_thoughts, Head(segments)))
         ELSE Route(Tail(segments),
                    Append(public_segments, Head(segments)), private_thoughts)

process_output(t) ==
    LET segments == split_into_segments(t)
        r == Route(segments, <<>>, <<>>)
    IN [segments |-> segments,
        public_segments |-> r.public_segments,
        public_output |-> JoinSpace(r.public_segments),
        private_thoughts |-> r.private_thoughts]

-----------------------------------------------------------------------------
(* Values of the variables a specification does not use *)

TextIdle == text = <<>> /\ out = NoValue
ScoreIdle == cls = NoValue /\ verdict = NoValue

-----------------------------------------------------------------------------
(* SpecText: process_output applied to every text of at most MaxTextLen     *)
(* atoms                                                                    *)

Texts == UNION {[1..n -> Atoms] : n \in 0..MaxTextLen}

ProcessOutput ==
    /\ out = NoValue
    /\ out' = process_output(text)
    /\ UNCHANGED <<text, scoreVars, keyVars, agentVars>>

-----------------------------------------------------------------------------
(* SpecScore: _is_likely_private applied to what the patterns can find in a *)
(* segment of at most MaxWords words                                        *)

MaxPronouns == 22    \* first-person pronouns in a segment
MaxOther == 1        \* matches of each other word list in a segment

\* Each match of a word list takes a word of its own, and an indicator can
\* only match where there is a word.
CountStates ==
    {c \in [match : BOOLEAN,
            first_person : 0..MaxPronouns,
            thinking_verbs : 0..MaxOther,
            uncertainty : 0..MaxOther,
            topic_mentions : 0..MaxOther,
            caution_phrases : 0..MaxOther,
            word_count : 0..MaxWords] :
        /\ c.first_person + c.thinking_verbs + c.uncertainty
             + c.topic_mentions + c.caution_phrases <= c.word_count
        /\ c.match => c.word_count >= 1}

Classify ==
    /\ verdict = NoValue
    /\ verdict' = [private |-> is_private_counts(cls)]
    /\ UNCHANGED <<cls, textVars, keyVars, agentVars>>

-----------------------------------------------------------------------------
(* EncryptionManager *)

KEY_SIZE == 32
IVSize == 16
\* algorithms.AES.block_size, in bytes
BlockSize == 16
\* the key lengths algorithms.AES accepts; any other raises ValueError
AESKeySizes == {16, 24, 32}

Procs == {1, 2}
\* the process whose SecretAgent the model follows
Agent == 1

\* key.txt does not exist
Absent == [kind |-> "absent"]
\* a key is a byte string: which one, and how long
Key(i, n) == [id |-> i, len |-> n]
\* os.urandom(KEY_SIZE)
RandomKeys == {Key(i, KEY_SIZE) : i \in 1..NumKeys}

\* base64.b64encode(key).decode('utf-8')
b64encode(k) == [kind |-> "b64", key |-> k]
\* a file opened for writing and not yet written: no characters
EmptyText == [kind |-> "empty"]
\* characters of the base64 alphabet with incorrect padding
Malformed == [kind |-> "malformed"]
\* base64.b64decode(content.strip()): the bytes, or Raises (binascii.Error)
b64decode(content) ==
    CASE content.kind = "b64" -> content.key
      [] content.kind = "empty" -> Key(0, 0)
      [] OTHER -> Raises

\* what key.txt can hold before the program first runs
InitialKeyFiles ==
    {Absent, Malformed} \cup {b64encode(Key(1, n)) : n \in {32, 16, 5}}

\* _load_or_create_key: key_path.exists()
KeyExists(p) ==
    /\ kpc[p] = "start"
    /\ kpc' = [kpc EXCEPT ![p] = IF keyFile # Absent THEN "load" ELSE "generate"]
    /\ UNCHANGED <<keyFile, kkey, generated>>
    /\ UNCHANGED <<textVars, scoreVars, agentVars>>

\* _load_or_create_key: open, read, b64decode, return; __init__ assigns
LoadKey(p) ==
    /\ kpc[p] = "load"
    /\ IF keyFile = Absent \/ b64decode(keyFile) = Raises
       THEN kpc' = [kpc EXCEPT ![p] = "failed"] /\ UNCHANGED kkey
       ELSE /\ kpc' = [kpc EXCEPT ![p] = "done"]
            /\ kkey' = [kkey EXCEPT ![p] = b64decode(keyFile)]
    /\ UNCHANGED <<keyFile, generated>>
    /\ UNCHANGED <<textVars, scoreVars, agentVars>>

\* _load_or_create_key: key = os.urandom(self.KEY_SIZE)
GenerateKey(p) ==
    /\ kpc[p] = "generate"
    /\ \E k \in RandomKeys : kkey' = [kkey EXCEPT ![p] = k]
    /\ kpc' = [kpc EXCEPT ![p] = "open_w"]
    /\ generated' = generated \cup {p}
    /\ UNCHANGED keyFile
    /\ UNCHANGED <<textVars, scoreVars, agentVars>>

\* _load_or_create_key: open(key_path, 'w') creates or truncates the file
OpenKeyFile(p) ==
    /\ kpc[p] = "open_w"
    /\ keyFile' = EmptyText
    /\ kpc' = [kpc EXCEPT ![p] = "write"]
    /\ UNCHANGED <<kkey, generated>>
    /\ UNCHANGED <<textVars, scoreVars, agentVars>>

\* _load_or_create_key: write, close, return; __init__ assigns
WriteKey(p) ==
    /\ kpc[p] = "write"
    /\ keyFile' = b64encode(kkey[p])
    /\ kpc' = [kpc EXCEPT ![p] = "done"]
    /\ UNCHANGED <<kkey, generated>>
    /\ UNCHANGED <<textVars, scoreVars, agentVars>>

\* EncryptionManager.__init__ in process p, one step
KeyStep(p) ==
    \/ KeyExists(p)
    \/ LoadKey(p)
    \/ GenerateKey(p)
    \/ OpenKeyFile(p)
    \/ WriteKey(p)

\* the faulty encrypt: loads or creates the key again on every call
CipherKey_Reloaded(p) ==
    IF keyFile = Absent \/ b64decode(keyFile) = Raises
    THEN CHOOSE k \in RandomKeys : k # kkey[p]
    ELSE b64decode(keyFile)
\* encrypt: self.key
CipherKey(p) == kkey[p]

\* the faulty padding: nothing is added to a whole number of blocks
PaddedLen_NoneOnBoundary(n) == n + ((BlockSize - (n % BlockSize)) % BlockSize)
\* padder.update(data) + padder.finalize(): PKCS7 appends BlockSize - n mod
\* BlockSize bytes to the n bytes of data
PaddedLen(n) == n + (BlockSize - (n % BlockSize))

\* encrypt: the blob iv + encrypted_data under key, iv and the PKCS7 padding;
\* CBC keeps the length of the padded data, and size is len() of the blob
encrypt(k, data, iv) ==
    [iv |-> iv, key |-> k, data |-> data,
     size |-> IVSize + PaddedLen(StrLen(data))]

KeyInit ==
    /\ kpc = [p \in Procs |-> "start"]
    /\ kkey = [p \in Procs |-> NoValue]
    /\ generated = {}

-----------------------------------------------------------------------------
(* StorageManager *)

\* _generate_filename: private_thought_<YYYYMMDDHHMMSS>.enc for the second t
generate_filename_unique(t) == <<t, Cardinality(DOMAIN files)>>
generate_filename(t) == <<t>>

\* open(filepath, 'wb') succeeds: the directory is there and can be written
CanWrite == dirExists /\ writable

\* save_encrypted_thought: the directory after the write
save_encrypted_thought(fs, name, blob) ==
    [f \in DOMAIN fs \cup {name} |-> IF f = name THEN blob ELSE fs[f]]

\* the faulty listing: a glob pattern that the generated names do not match
get_saved_files_wrong_glob == {f \in DOMAIN files : Len(f) # 1}
\* get_saved_files: the *.enc paths of the directory
get_saved_files == DOMAIN files

-----------------------------------------------------------------------------
(* SecretAgent *)

\* the texts process_message is called with: no private segment, one, one
\* other, and two with a public segment between them
Messages ==
    {<<"X">>,
     <<"I", "\n", "\n", "X">>,
     <<"secret">>,
     <<"secret", "\n", "\n", "X", "\n", "\n", "I">>}

IVs == 1..NumIVs

\* SecretAgent.__init__, once EncryptionManager() has returned:
\* StorageManager() makes the directory, private_thought_count = 0
AgentInit ==
    /\ apc = "new"
    /\ kpc[Agent] = "done"
    /\ dirExists' = TRUE
    /\ count' = 0
    /\ apc' = "idle"
    /\ firstKey' = kkey[Agent]
    /\ UNCHANGED <<textVars, scoreVars, keyVars, keyDeleted, lastEnc, writable,
                   files, now, pub, todo, stored, failed, found, count0,
                   result, emitted, prevCall, lastCall, lastSave, ncalls>>

\* the record of a finished call (history): how it ended, the private
\* thoughts it found, its metadata, the listing of private/ and the last blob
\* it wrote
CallRecord(status, n, metas, listing, blob) ==
    [status |-> status, found |-> n, stored |-> metas, listing |-> listing,
     blob |-> blob]

\* process_message up to the loop; with no private thought it returns at once
BeginProcess(message) ==
    /\ apc \in {"idle", "returned", "raised"}
    /\ ncalls < MaxCalls
    /\ ncalls' = ncalls + 1
    /\ LET r == process_output(message)
       IN /\ pub' = r.public_output
          /\ todo' = r.private_thoughts
          /\ found' = Len(r.private_thoughts)
          /\ IF r.private_thoughts = <<>>
             THEN /\ apc' = "returned"
                  /\ result' = [public_output |-> r.public_output,
                                stored_thoughts |-> <<>>]
                  /\ prevCall' = lastCall
                  /\ lastCall' = CallRecord("returned", 0, <<>>, get_saved_files,
                                            NoValue)
             ELSE /\ apc' = "loop"
                  /\ result' = NoValue
                  /\ UNCHANGED <<prevCall, lastCall>>
    /\ stored' = <<>>
    /\ failed' = FALSE
    /\ count0' = count
    /\ UNCHANGED <<textVars, scoreVars, keyVars, keyDeleted, firstKey, lastEnc,
                   dirExists, writable, files, now, count, emitted, lastSave>>

\* thought_metadata for the blob encrypted_data saved at filepath
ThoughtMetadata(id, t, filepath, encrypted_data) ==
    [id |-> id, timestamp |-> t, filepath |-> filepath,
     size_bytes |-> encrypted_data.size, encrypted |-> TRUE]

\* the faulty increment: the counter is left as it was
Increment_Skipped(c) == c
\* private_thought_count += 1
Increment(c) == c + 1

\* one iteration of the loop with nothing raised: encrypt, save, metadata,
\* count; after the last thought process_message returns
ProcessThought ==
    /\ apc = "loop"
    /\ CipherKey(Agent).len \in AESKeySizes
    /\ CanWrite
    /\ \E iv \in IVs :
        LET encrypted_data == encrypt(CipherKey(Agent), Head(todo), iv)
            filepath == generate_filename(now)
            thought_metadata == ThoughtMetadata(count, now, filepath,
                                                encrypted_data)
            after == save_encrypted_thought(files, filepath, encrypted_data)
        IN /\ lastEnc' = [key |-> CipherKey(Agent), keyFile |-> keyFile]
           /\ files' = after
           /\ lastSave' = [path |-> filepath, listing |-> get_saved_files']
           /\ stored' = Append(stored, thought_metadata)
           /\ emitted' = Append(emitted, thought_metadata)
           /\ count' = Increment(count)
           /\ todo' = Tail(todo)
           /\ IF Tail(todo) = <<>>
              THEN /\ apc' = "returned"
                   /\ result' = [public_output |-> pub,
                                 stored_thoughts |-> stored']
                   /\ prevCall' = lastCall
                   /\ lastCall' = CallRecord("returned", found, stored',
                                             DOMAIN after, encrypted_data)
              ELSE UNCHANGED <<apc, result, prevCall, lastCall>>
    /\ UNCHANGED <<textVars, scoreVars, keyVars, keyDeleted, firstKey,
                   dirExists, writable, now, pub, failed, found, count0, ncalls>>

\* the faulty handling: the exception is caught and the loop goes on with the
\* next thought
AfterException_Swallowed(rest) ==
    [apc |-> IF Tail(rest) = <<>> THEN "returned" ELSE "loop",
     todo |-> Tail(rest),
     result |-> IF Tail(rest) = <<>>
                THEN [public_output |-> pub, stored_thoughts |-> stored]
                ELSE NoValue]
\* an exception in the loop body is not caught: process_message ends there
\* and returns nothing
AfterException(rest) == [apc |-> "raised", todo |-> rest, result |-> NoValue]

\* the faulty handling: the counter is set back to where the call began
CountAfterException_RolledBack(c) == count0
\* nothing undoes the iterations already done: the counter stays as it is
\* (and so do the files)
CountAfterException(c) == c

\* an iteration whose encrypt or save raises
ThoughtRaises ==
    /\ apc = "loop"
    /\ \/ /\ CipherKey(Agent).len \notin AESKeySizes
          /\ lastEnc' = [key |-> CipherKey(Agent), keyFile |-> keyFile]
       \/ /\ CipherKey(Agent).len \in AESKeySizes
          /\ ~CanWrite
          /\ lastEnc' = [key |-> CipherKey(Agent), keyFile |-> keyFile]
    /\ failed' = TRUE
    /\ count' = CountAfterException(count)
    /\ apc' = AfterException(todo).apc
    /\ todo' = AfterException(todo).todo
    /\ result' = AfterException(todo).result
    /\ prevCall' = lastCall
    /\ lastCall' = CallRecord(AfterException(todo).apc, found, stored,
                              get_saved_files, NoValue)
    /\ UNCHANGED <<textVars, scoreVars, keyVars, keyDeleted, firstKey,
                   dirExists, writable, files, now, pub, stored, found, count0,
                   emitted, lastSave, ncalls>>

ProcessMessage ==
    \/ \E message \in Messages : BeginProcess(message)
    \/ ProcessThought
    \/ ThoughtRaises

-----------------------------------------------------------------------------
(* The environment of the agent *)

\* the wall clock reaches the next second
Tick ==
    /\ now < MaxClock
    /\ now' = now + 1
    /\ UNCHANGED <<textVars, scoreVars, keyVars, keyDeleted, firstKey, lastEnc,
                   dirExists, writable, files, apc, count, pub, todo, stored,
                   failed, found, count0, result, emitted, prevCall, lastCall,
                   lastSave, ncalls>>

\* key.txt is removed while the agent that loaded it lives on
DeleteKeyFile ==
    /\ apc # "new"
    /\ keyFile # Absent
    /\ keyFile' = Absent
    /\ keyDeleted' = TRUE
    /\ UNCHANGED <<textVars, scoreVars, kpc, kkey, generated, firstKey,
                   lastEnc, dirExists, writable, files, now, apc, count, pub,
                   todo, stored, failed, found, count0, result, emitted,
                   prevCall, lastCall, lastSave, ncalls>>

\* an operator removes private/ and the files in it
RemoveDir ==
    /\ apc # "new"
    /\ dirExists
    /\ dirExists' = FALSE
    /\ files' = [f \in {} |-> NoValue]
    /\ UNCHANGED <<textVars, scoreVars, keyVars, keyDeleted, firstKey, lastEnc,
                   writable, now, apc, count, pub, todo, stored, failed, found,
                   count0, result, emitted, prevCall, lastCall, lastSave, ncalls>>

\* the permissions of private/ change, or the disk fills up or is freed
SetWritable ==
    /\ apc # "new"
    /\ writable' = ~writable
    /\ UNCHANGED <<textVars, scoreVars, keyVars, keyDeleted, firstKey, lastEnc,
                   dirExists, files, now, apc, count, pub, todo, stored,
                   failed, found, count0, result, emitted, prevCall, lastCall,
                   lastSave, ncalls>>

-----------------------------------------------------------------------------
(* Specifications *)

AgentIdle ==
    /\ keyDeleted = FALSE
    /\ firstKey = NoValue
    /\ lastEnc = NoValue
    /\ dirExists = FALSE
    /\ writable = TRUE
    /\ files = [f \in {} |-> NoValue]
    /\ now = 0
    /\ apc = "new"
    /\ count = 0
    /\ pub = <<>>
    /\ todo = <<>>
    /\ stored = <<>>
    /\ failed = FALSE
    /\ found = 0
    /\ count0 = 0
    /\ result = NoValue
    /\ emitted = <<>>
    /\ prevCall = NoValue
    /\ lastCall = NoValue
    /\ lastSave = NoValue
    /\ ncalls = 0

\* process_output on one text
InitText ==
    /\ text \in Texts
    /\ out = NoValue
    /\ ScoreIdle
    /\ keyFile = Absent
    /\ KeyInit
    /\ AgentIdle
NextText == ProcessOutput
SpecText == InitText /\ [][NextText]_vars

\* _is_likely_private on one segment's counts
InitScore ==
    /\ cls \in CountStates
    /\ verdict = NoValue
    /\ TextIdle
    /\ keyFile = Absent
    /\ KeyInit
    /\ AgentIdle
NextScore == Classify
SpecScore == InitScore /\ [][NextScore]_vars

\* two processes construct their EncryptionManager at the same time, with no
\* key file yet
InitKey ==
    /\ keyFile = Absent
    /\ KeyInit
    /\ TextIdle
    /\ ScoreIdle
    /\ AgentIdle
NextKey == \E p \in Procs : KeyStep(p)
SpecKey == InitKey /\ [][NextKey]_vars

\* encrypt, and the metadata made for its blob, on one plaintext
EncryptText ==
    /\ out = NoValue
    /\ \E k \in RandomKeys, iv \in IVs :
          LET encrypted_data == encrypt(k, text, iv)
          IN out' = [blob |-> encrypted_data,
                     meta |-> ThoughtMetadata(count, now,
                                              generate_filename(now),
                                              encrypted_data)]
    /\ UNCHANGED <<text, scoreVars, keyVars, agentVars>>
InitEnc ==
    /\ text \in Texts
    /\ out = NoValue
    /\ ScoreIdle
    /\ keyFile = Absent
    /\ KeyInit
    /\ AgentIdle
NextEnc == EncryptText
SpecEnc == InitEnc /\ [][NextEnc]_vars

\* one process constructs a SecretAgent and calls process_message on it,
\* while the clock, key.txt and private/ change around it
Init ==
    /\ keyFile \in InitialKeyFiles
    /\ KeyInit
    /\ TextIdle
    /\ ScoreIdle
    /\ AgentIdle
Next ==
    \/ KeyStep(Agent)
    \/ AgentInit
    \/ ProcessMessage
    \/ Tick
    \/ DeleteKeyFile
    \/ RemoveDir
    \/ SetWritable
Spec == Init /\ [][Next]_vars

-----------------------------------------------------------------------------
(* Claims *)

RECURSIVE SelectSegments(_, _)
\* the segments whose classification is want, in their order
SelectSegments(segments, want) ==
    IF segments = <<>> THEN <<>>
    ELSE IF is_likely_private(Head(segments)) = want
         THEN <<Head(segments)>> \o SelectSegments(Tail(segments), want)
         ELSE SelectSegments(Tail(segments), want)

RECURSIVE NonWS(_)
\* a string with its whitespace characters removed
NonWS(s) ==
    IF s = <<>> THEN <<>>
    ELSE IF Head(s) \in WS THEN NonWS(Tail(s))
    ELSE <<Head(s)>> \o NonWS(Tail(s))

\* C1: process_output puts every segment in exactly one list, the private
\* list if is_private holds of it and the public list otherwise, each list in
\* the segments' order; public_text is the public list joined with single
\* spaces, and no private segment is in it.
C1_Routing ==
    out # NoValue =>
        /\ out.private_thoughts = SelectSegments(out.segments, TRUE)
        /\ out.public_segments = SelectSegments(out.segments, FALSE)
        /\ Len(out.private_thoughts) + Len(out.public_segments)
             = Len(out.segments)
        /\ out.public_output = JoinSpace(out.public_segments)
        /\ \A i \in 1..Len(out.public_segments) :
               ~is_likely_private(out.public_segments[i])
\* a text with a private segment followed by a public one
C1_Witness ==
    /\ out # NoValue
    /\ Len(out.segments) = 2
    /\ out.private_thoughts = <<out.segments[1]>>
    /\ out.public_segments = <<out.segments[2]>>

\* C10: the segments are trimmed and non-empty, and joined in order they are
\* the input up to whitespace: with the whitespace taken out of both, the
\* joined segments and the input are the same string, also when a paragraph
\* of more than 500 characters was split again at its sentence ends.
C10_SegmentsKeepText ==
    out # NoValue =>
        /\ \A i \in 1..Len(out.segments) :
               /\ out.segments[i] # <<>>
               /\ Strip(out.segments[i]) = out.segments[i]
        /\ NonWS(Concat(out.segments)) = NonWS(text)
\* one paragraph of more than 500 characters, split into two sentences
C10_Witness ==
    /\ out # NoValue
    /\ Len(ParaSplit(text, 1, <<>>)) = 1
    /\ StrLen(Strip(text)) > LongParagraph
    /\ Len(out.segments) = 2

IntroIndicators(c) == c.first_person + c.thinking_verbs + c.uncertainty
SensIndicators(c) == c.topic_mentions + 2 * c.caution_phrases

\* C9: is_private is true exactly when an explicit indicator matches, or the
\* introspection score min(1, indicators / (0.3 words)) is above 0.7, or the
\* sensitivity score min(1, (topics + 2 cautions) / (0.25 words)) is above
\* 0.8; a score equal to its threshold does not count, and with no words
\* both scores are 0 and the segment is not private.
C9_IsPrivateIff ==
    verdict # NoValue =>
        /\ verdict.private <=>
              \/ cls.match
              \/ cls.word_count > 0 /\ 100 * IntroIndicators(cls) > 21 * cls.word_count
              \/ cls.word_count > 0 /\ 5 * SensIndicators(cls) > cls.word_count
        /\ cls.word_count = 0 =>
              /\ calculate_introspection_score(cls) = Zero
              /\ calculate_sensitivity_score(cls) = Zero
              /\ ~verdict.private
\* a segment whose introspection score is exactly 0.7 (21 indicators in 100
\* words) is classified, and is not private
C9_Witness ==
    /\ verdict # NoValue
    /\ ~verdict.private
    /\ cls.word_count > 0
    /\ 100 * IntroIndicators(cls) = 21 * cls.word_count

\* C2: every private segment stored has a file of its own, so no two
\* metadata records name the same file; and a save never changes a file that
\* is already there.
C2_OneFilePerSegment ==
    /\ [](\A i, j \in 1..Len(emitted) :
             i # j => emitted[i].filepath # emitted[j].filepath)
    /\ [][\A f \in DOMAIN files \cap DOMAIN files' : files'[f] = files[f]]_vars

\* two calls in a row returned, each found one private segment, and both
\* stored it in the same second
SameSecondPair ==
    /\ prevCall # NoValue
    /\ prevCall.status = "returned"
    /\ lastCall.status = "returned"
    /\ prevCall.found = 1
    /\ lastCall.found = 1
    /\ prevCall.stored[1].timestamp = lastCall.stored[1].timestamp

\* C3: when two texts with one private segment each are processed one after
\* the other in the same second, both calls return, the second save writes
\* over the file of the first, and the listing taken then has one file for
\* the two.
C3_SameSecondOverwrites ==
    /\ SameSecondPair =>
          /\ prevCall.stored[1].filepath = lastCall.stored[1].filepath
          /\ Cardinality(lastCall.listing \cap
                 {prevCall.stored[1].filepath, lastCall.stored[1].filepath}) = 1
    /\ SameSecondPair /\ apc = "returned" /\ dirExists =>
          files[lastCall.stored[1].filepath] = lastCall.blob
\* ... and the two blobs differ, so the overwriting shows
C3_Witness ==
    /\ SameSecondPair
    /\ apc = "returned"
    /\ dirExists
    /\ lastCall.blob # prevCall.blob

\* C4: the ids of the metadata records increase strictly in the order the
\* records are made, and a call that returns has advanced the counter by the
\* number of private segments it found.
C4_IdsIncrease ==
    /\ \A i, j \in 1..Len(emitted) :
           i < j => emitted[i].id < emitted[j].id
    /\ apc = "returned" => count = count0 + found
\* a second call returned after an earlier call stored something
C4_Witness ==
    /\ apc = "returned"
    /\ ncalls = 2
    /\ found >= 1
    /\ count0 >= 1

\* C5: a key file that does not decode to KEY_SIZE bytes makes construction
\* fail: no EncryptionManager holds a key of another length, and encrypt is
\* never called with one.
C5_KeyHasKeySize ==
    /\ kpc[Agent] = "done" => kkey[Agent].len = KEY_SIZE
    /\ lastEnc # NoValue => lastEnc.key.len = KEY_SIZE

\* C6: once the agent holds its key, removing key.txt makes no new key:
\* self.key stays the key first loaded, every encrypt call uses it, and no
\* key file is written.
C6_KeyCached ==
    apc # "new" =>
        /\ kkey[Agent] = firstKey
        /\ lastEnc # NoValue => lastEnc.key = firstKey
        /\ keyDeleted => keyFile = Absent
\* an encrypt call made after key.txt was removed
C6_Witness ==
    /\ keyDeleted
    /\ lastEnc # NoValue
    /\ lastEnc.keyFile = Absent
    /\ files # [f \in {} |-> NoValue]

\* C7: of two first-time constructions run together with no key file, at
\* most one generates a key, and once both are done they hold the same key,
\* the one in key.txt.
C7_InitSerialized ==
    /\ Cardinality(generated) <= 1
    /\ (\A p \in Procs : kpc[p] = "done") =>
          /\ \A p, q \in Procs : kkey[p] = kkey[q]
          /\ keyFile = b64encode(kkey[Agent])

\* C8: when encrypt or save raises in process(), the call ends there with
\* the exception: it returns no public text and no metadata, the failing
\* segment and those after it are neither encrypted nor stored, and a call
\* that returns has stored every private segment it found.
C8_FailureAborts ==
    /\ failed =>
          /\ apc = "raised"
          /\ result = NoValue
          /\ todo # <<>>
          /\ count = count0 + (found - Len(todo))
          /\ Len(stored) = found - Len(todo)
    /\ apc = "returned" =>
          /\ ~failed
          /\ Len(result.stored_thoughts) = found
\* the save of the second private segment of a call raised
C8_Witness ==
    /\ failed
    /\ found = 2
    /\ Len(todo) = 1

\* C11: a list_saved() that follows a successful save at once has the path
\* the save returned in it, whatever else is in the directory.
C11_SavedIsListed ==
    lastSave # NoValue => lastSave.path \in lastSave.listing
\* a save into a directory that already held another file
C11_Witness ==
    /\ lastSave # NoValue
    /\ \E f \in lastSave.listing : f # lastSave.path

\* C12: save makes private/ itself when it is missing: an iteration of the
\* loop that starts with the directory removed, the key usable and nothing
\* else in the way of writing does not raise, and whenever a thought has
\* been stored the directory is there.
C12_SaveEnsuresDir ==
    [][/\ (apc = "loop" /\ ~dirExists /\ writable
              /\ CipherKey(Agent).len \in AESKeySizes) => apc' # "raised"
       /\ emitted' # emitted => dirExists']_vars

\* C13: for a plaintext of n bytes encrypt returns 16 + 16 * (n div 16 + 1)
\* bytes, the 16-byte IV and then the payload with 1 to 16 padding bytes,
\* also when n is a multiple of 16; size_bytes of the metadata is that length.
C13_BlobLength ==
    out # NoValue =>
        /\ out.blob.size = 16 + 16 * ((StrLen(text) \div 16) + 1)
        /\ out.blob.size - 16 - StrLen(text) \in 1..16
        /\ out.meta.size_bytes = out.blob.size
\* a plaintext of a whole number of blocks (16 bytes or more) was encrypted
C13_Witness ==
    /\ out # NoValue
    /\ StrLen(text) > 0
    /\ StrLen(text) % 16 = 0

\* a call raised after it had stored at least one thought, and the next call
\* found a private thought and returned
ReturnedAfterPartial ==
    /\ prevCall # NoValue
    /\ prevCall.status = "raised"
    /\ prevCall.stored # <<>>
    /\ lastCall.status = "returned"
    /\ lastCall.found >= 1

\* C14: nothing is rolled back when the k-th private segment of a call
\* (k >= 2) fails: the counter stays advanced by k - 1 and the k - 1 files
\* written stay in the directory (unless it is removed from outside), the
\* caller gets no metadata, and the ids of the next successful call start
\* after the ids the failed call used.
C14_NoRollback ==
    /\ failed /\ stored # <<>> =>
          /\ count = count0 + Len(stored)
          /\ result = NoValue
          /\ dirExists =>
                \A i \in 1..Len(stored) : stored[i].filepath \in DOMAIN files
    /\ ReturnedAfterPartial =>
          lastCall.stored[1].id = prevCall.stored[Len(prevCall.stored)].id + 1
\* the second segment of a call failed with the first one's file still there,
\* and the next call returned
C14_Witness ==
    /\ ReturnedAfterPartial
    /\ prevCall.stored[1].filepath \in prevCall.listing
    /\ apc = "returned"

=============================================================================
